---- MODULE Spec2Model ----
(***************************************************************************)
(* Model of the academic-services ticket queue (queue_system.py): one      *)
(* Service with its schedule, waiting-time estimator, FIFO waiting queue,  *)
(* current-ticket slot and served history.                                 *)
(*                                                                         *)
(* Ticket objects live in a heap (the sequence `tickets`); the queue, the  *)
(* current slot and the served history hold references (heap indices), as  *)
(* the Python lists hold object references.  The null reference None is 0. *)
(*                                                                         *)
(* `services` is the dictionary of a QueueSystem.  `pc` and `local` hold   *)
(* the position and the local variables of the sessions that run           *)
(* take_ticket and call_next statement by statement; `overlap` records     *)
(* whether two take_ticket calls have been in progress at once; `added`    *)
(* is the sequence of the Services passed to add_service so far.           *)
(***************************************************************************)
EXTENDS Integers, Sequences, FiniteSets, TLC

VARIABLES code, avg_service_time_min, avg_staff_count,
          opening_time_min, closing_time_min, allowed_weekdays,
          next_ticket_number, queue, current_ticket, served_tickets,
          tickets, returned, ret,
          services, added, pc, local, overlap

config == <<code, avg_service_time_min, avg_staff_count,
            opening_time_min, closing_time_min, allowed_weekdays>>

service == <<next_ticket_number, queue, current_ticket, served_tickets, tickets>>

\* the registry and the sessions
world == <<services, added, pc, local, overlap>>

vars == <<config, service, returned, ret, world>>

None == 0

NoInfo == <<>>

(***************************************************************************)
(* Bounds of the model.                                                    *)
(***************************************************************************)
\* tickets issued in one run of the queue
MaxTickets == 11

\* largest people_ahead handed to the estimator directly
MaxPeopleAhead == 12

\* largest avg_staff_count and avg_service_time_min of the estimator runs
MaxStaff == 5

MaxAvg == 45

\* tickets issued in one run of the schedule checks
MaxOpenTickets == 1

\* tickets issued, over all Services, in one run of the default system
MaxSystemTickets == 2

\* tickets issued in one run of the interleaved sessions
MaxConcTickets == 3

\* add_service calls in one run of the registry checks
MaxAdds == 4

\* tickets issued in one run of the ticket-taking checks
MaxTakeTickets == 4

(***************************************************************************)
(* IEEE-754 binary64 arithmetic, as far as line 120 needs it:              *)
(*     int((effective_ahead / staff) * self.avg_service_time_min)          *)
(* A positive double is [m |-> 53 bits, most significant first and 1,      *)
(* x |-> exponent of the least significant bit]: its value is m * 2^x.     *)
(***************************************************************************)
MantissaBits == 53

\* the bits of a limb: a limb is a digit in base 2^LimbBits
LimbBits == 13

RECURSIVE Pow2(_)
Pow2(n) == IF n = 0 THEN 1 ELSE 2 * Pow2(n - 1)

\* 2^i mod d, by repeated squaring
RECURSIVE Pow2Mod(_, _)
Pow2Mod(i, d) ==
    IF i = 0 THEN 1 % d
    ELSE LET h == Pow2Mod(i \div 2, d)
         IN  (h * h * (IF i % 2 = 1 THEN 2 ELSE 1)) % d

\* the value of a short bit string
RECURSIVE BitsToInt(_)
BitsToInt(bits) ==
    IF bits = <<>> THEN 0
    ELSE 2 * BitsToInt(SubSeq(bits, 1, Len(bits) - 1)) + bits[Len(bits)]

\* the bit string without its leading zeros (some bit is 1)
StripZeros(bits) ==
    LET first == CHOOSE i \in 1..Len(bits) :
                     bits[i] = 1 /\ \A j \in 1..(i - 1) : bits[j] = 0
    IN  SubSeq(bits, first, Len(bits))

\* bits + 1, one bit longer when the carry runs off the top
Increment(bits) ==
    IF \A i \in 1..Len(bits) : bits[i] = 1
    THEN <<1>> \o [i \in 1..Len(bits) |-> 0]
    ELSE LET last == CHOOSE i \in 1..Len(bits) :
                         bits[i] = 0 /\ \A j \in (i + 1)..Len(bits) : bits[j] = 1
         IN  [i \in 1..Len(bits) |->
                 IF i < last THEN bits[i] ELSE IF i = last THEN 1 ELSE 0]

\* round-half-to-even of the bit string `bits` (no leading zero, at least 53
\* bits) with `sticky` telling of nonzero digits beyond it, to 53 bits
RoundToDouble(bits, x, sticky) ==
    LET keep  == SubSeq(bits, 1, MantissaBits)
        rest  == SubSeq(bits, MantissaBits + 1, Len(bits))
        drop  == Len(rest)
        half  == rest # <<>> /\ rest[1] = 1
        more  == sticky \/ \E i \in 2..drop : rest[i] = 1
        up    == half /\ (more \/ keep[MantissaBits] = 1)
        inc   == Increment(keep)
    IN  IF ~up THEN [m |-> keep, x |-> x + drop]
        ELSE IF Len(inc) > MantissaBits
             THEN [m |-> SubSeq(inc, 1, MantissaBits), x |-> x + drop + 1]
             ELSE [m |-> inc, x |-> x + drop]

\* the next n binary digits of r/d (0 <= r < d): the i-th digit tells
\* whether twice the remainder left after i-1 digits reaches d
DivBits(r, d, n) ==
    [i \in 1..n |-> IF 2 * ((r * Pow2Mod(i - 1, d)) % d) >= d THEN 1 ELSE 0]

\* the remainder left after n digits
DivRem(r, d, n) == (r * Pow2Mod(n, d)) % d

\* scale n/d into [1, 2): the result is <<n', d', k>> with n/d = n'/d' * 2^k
RECURSIVE Normalise(_, _, _)
Normalise(n, d, k) ==
    IF n < d THEN Normalise(2 * n, d, k - 1)
    ELSE IF n >= 2 * d THEN Normalise(n, 2 * d, k + 1)
    ELSE <<n, d, k>>

\* n / d for positive integers, correctly rounded (Python's int / int)
FloatDiv(n, d) ==
    LET nd   == Normalise(n, d, 0)
        r0   == nd[1] - nd[2]
        bits == <<1>> \o DivBits(r0, nd[2], MantissaBits)
        rem  == DivRem(r0, nd[2], MantissaBits)
    IN  RoundToDouble(bits, nd[3] - MantissaBits, rem # 0)

\* the limbs of a bit string, least significant limb first
Limbs(bits) ==
    LET n == (Len(bits) + LimbBits - 1) \div LimbBits
    IN  [k \in 1..n |->
            LET hi == Len(bits) - (k - 1) * LimbBits
                lo == IF hi - LimbBits + 1 < 1 THEN 1 ELSE hi - LimbBits + 1
            IN  BitsToInt(SubSeq(bits, lo, hi))]

\* limbs * a + carry for a small positive integer a, limb by limb
RECURSIVE MulLimbs(_, _, _)
MulLimbs(limbs, a, carry) ==
    IF limbs = <<>>
    THEN IF carry = 0 THEN <<>> ELSE <<carry>>
    ELSE LET v == limbs[1] * a + carry
         IN  <<v % Pow2(LimbBits)>> \o MulLimbs(Tail(limbs), a, v \div Pow2(LimbBits))

\* the bit string of a limb sequence, most significant bit first
LimbsToBits(limbs) ==
    LET n == Len(limbs) * LimbBits
    IN  [i \in 1..n |->
            LET w == n - i
            IN  (limbs[(w \div LimbBits) + 1] \div Pow2(w % LimbBits)) % 2]

\* f * a for a double f and a positive integer a (float * int)
FloatMul(f, a) ==
    RoundToDouble(StripZeros(LimbsToBits(MulLimbs(Limbs(f.m), a, 0))), f.x, FALSE)

\* int(f): truncation toward zero of a positive double below 2^31
FloatToInt(f) ==
    IF MantissaBits + f.x <= 0 THEN 0
    ELSE BitsToInt(SubSeq(f.m, 1, MantissaBits + f.x))


\* line 120 for positive integers
FloatEstimate(effective_ahead, staff, avg) ==
    FloatToInt(FloatMul(FloatDiv(effective_ahead, staff), avg))

\* FloatEstimate, computed once for the arguments within the bounds
EstimateTable ==
    <<>> \o [st \in 1..MaxStaff |->
        <<>> \o [avg \in 1..MaxAvg |->
            <<>> \o [ea \in 1..(MaxPeopleAhead + 1) |-> FloatEstimate(ea, st, avg)]]]

Estimated(effective_ahead, staff, avg) ==
    IF staff <= MaxStaff /\ avg <= MaxAvg /\ effective_ahead <= MaxPeopleAhead + 1
    THEN EstimateTable[staff][avg][effective_ahead]
    ELSE FloatEstimate(effective_ahead, staff, avg)

(***************************************************************************)
(* Construction.                                                           *)
(***************************************************************************)
\* "HH:MM" is the pair <<HH, MM>>
time_to_minutes(time_str) == time_str[1] * 60 + time_str[2]

\* the result of the last call: op and arg name the call, the other fields
\* hold what it returned (ticket: a reference or None; status and info: the
\* pair of find_ticket_status, info = NoInfo for None, and the pair of
\* estimate_waiting_time_for_new_ticket in info; ok: the boolean of is_open)
Result(op, arg, ticket, status, info, ok) ==
    [op |-> op, arg |-> arg, ticket |-> ticket, status |-> status,
     info |-> info, ok |-> ok]

\* Service.__init__; weekdays is {} for allowed_weekdays=None, else {list}
ServiceInit(c, avg, staff, opening, closing, weekdays) ==
    /\ code = c
    /\ avg_service_time_min = avg
    /\ avg_staff_count = staff
    /\ opening_time_min = time_to_minutes(opening)
    /\ closing_time_min = time_to_minutes(closing)
    /\ allowed_weekdays = IF weekdays = {} THEN <<0, 1, 2, 3, 4>>
                          ELSE CHOOSE l \in weekdays : TRUE
    /\ next_ticket_number = 1
    /\ queue = <<>>
    /\ current_ticket = None
    /\ served_tickets = <<>>
    /\ tickets = <<>>
    /\ returned = <<>>
    /\ ret = Result("init", <<>>, None, "", NoInfo, FALSE)

mwf_only == <<0, 2, 4>>

\* a Service object as a value: the fields set by Service.__init__, the
\* lists holding references into the heap `tickets`
Service(c, d, avg, staff, opening, closing, weekdays) ==
    [code |-> c, description |-> d,
     avg_service_time_min |-> avg, avg_staff_count |-> staff,
     opening_time_min |-> time_to_minutes(opening),
     closing_time_min |-> time_to_minutes(closing),
     allowed_weekdays |-> IF weekdays = {} THEN <<0, 1, 2, 3, 4>>
                          ELSE CHOOSE l \in weekdays : TRUE,
     next_ticket_number |-> 1, queue |-> <<>>, current_ticket |-> None,
     served_tickets |-> <<>>]

(***************************************************************************)
(* QueueSystem: the dictionary self.services is the sequence of its        *)
(* entries [key, value] in insertion order, passed as `reg`.               *)
(***************************************************************************)
HasKey(reg, c) == \E i \in DOMAIN reg : reg[i].key = c

\* add_service that leaves a code already present as it is
add_service_keeps_first(reg, svc) ==
    IF HasKey(reg, svc.code) THEN reg
    ELSE Append(reg, [key |-> svc.code, value |-> svc])

\* self.services[service.code] = service: an existing key keeps its place
add_service(reg, svc) ==
    IF HasKey(reg, svc.code)
    THEN <<>> \o [i \in DOMAIN reg |->
                     IF reg[i].key = svc.code THEN [key |-> svc.code, value |-> svc]
                     ELSE reg[i]]
    ELSE Append(reg, [key |-> svc.code, value |-> svc])

\* self.services.get(code): {the Service}, or {} for None
get_service(reg, c) == {reg[i].value : i \in {j \in DOMAIN reg : reg[j].key = c}}

\* list(self.services.keys())
get_service_codes(reg) == <<>> \o [i \in DOMAIN reg |-> reg[i].key]

\* the sessions: two students, who take tickets, and the staff, who call
Students == {"student1", "student2"}

Staff == "staff"

Sessions == Students \cup {Staff}

\* QueueSystem.__init__
NoServices == services = <<>> /\ added = <<>>

\* the local variables of a call: the ticket made by take_ticket, the
\* value loaded for the increment, the ticket popped by call_next
NoLocals == [ticket |-> None, loaded |-> 0, next_ticket |-> None]

\* no call in progress
AllIdle ==
    /\ pc = [a \in Sessions |-> "idle"]
    /\ local = [a \in Sessions |-> NoLocals]
    /\ overlap = FALSE

\* the staff counts and average times of the queue runs: the default
\* catalog's (3 counters, 10 minutes) and others around it
QueueStaff == {0, 3, 5}

QueueAvg == {1, 10, 45}

Init ==
    \E avg \in QueueAvg, staff \in QueueStaff :
        /\ ServiceInit("AA", avg, staff, <<10, 0>>, <<13, 0>>, {mwf_only})
        /\ NoServices
        /\ AllIdle

(***************************************************************************)
(* Open / waiting-time helpers.                                            *)
(***************************************************************************)
InList(x, l) == \E i \in DOMAIN l : l[i] = x

\* is_open with the closing minute still open
is_open_closing_inclusive(current_time_min, weekday) ==
    IF ~InList(weekday, allowed_weekdays) THEN FALSE
    ELSE IF current_time_min < opening_time_min THEN FALSE
    ELSE IF current_time_min > closing_time_min THEN FALSE
    ELSE TRUE

is_open(current_time_min, weekday) ==
    IF ~InList(weekday, allowed_weekdays) THEN FALSE
    ELSE IF current_time_min < opening_time_min THEN FALSE
    ELSE IF current_time_min >= closing_time_min THEN FALSE
    ELSE TRUE

\* f"{total_minutes // 60:02d}:{total_minutes % 60:02d}": "HH:MM" as <<HH, MM>>
minutes_to_time_str(total_minutes) == <<total_minutes \div 60, total_minutes % 60>>

\* the reasons open_state_message gives for a closed service
NotScheduledDay == "today is not a scheduled support day."

NotOpenedYet == "they have not opened yet."

AlreadyClosed == "they are already closed for today."

TemporarilyUnavailable == "they are temporarily unavailable."

\* open_state_message asking for the time before the weekday
open_state_message_time_first(current_time_min, weekday) ==
    LET time_text == minutes_to_time_str(current_time_min)
    IN  IF is_open(current_time_min, weekday)
        THEN [open |-> TRUE, reason |-> "", time_text |-> time_text]
        ELSE [open |-> FALSE,
              reason |-> IF current_time_min < opening_time_min THEN NotOpenedYet
                         ELSE IF current_time_min >= closing_time_min THEN AlreadyClosed
                         ELSE IF ~InList(weekday, allowed_weekdays) THEN NotScheduledDay
                         ELSE TemporarilyUnavailable,
              time_text |-> time_text]

\* open_state_message(service, current_time_min, weekday): the flag, and of
\* the message the reason (none when open) and the time text
open_state_message(current_time_min, weekday) ==
    LET time_text == minutes_to_time_str(current_time_min)
    IN  IF is_open(current_time_min, weekday)
        THEN [open |-> TRUE, reason |-> "", time_text |-> time_text]
        ELSE [open |-> FALSE,
              reason |-> IF ~InList(weekday, allowed_weekdays) THEN NotScheduledDay
                         ELSE IF current_time_min < opening_time_min THEN NotOpenedYet
                         ELSE IF current_time_min >= closing_time_min THEN AlreadyClosed
                         ELSE TemporarilyUnavailable,
              time_text |-> time_text]

people_waiting == Len(queue)

\* the estimator with its first test off by one
_estimate_waiting_from_position_le(people_ahead) ==
    LET staff == IF avg_staff_count > 0 THEN avg_staff_count ELSE 1
    IN  IF people_ahead <= staff THEN 0
        ELSE LET effective_ahead == people_ahead - staff + 1
             IN  Estimated(effective_ahead, staff, avg_service_time_min)

_estimate_waiting_from_position(people_ahead) ==
    LET staff == IF avg_staff_count > 0 THEN avg_staff_count ELSE 1
    IN  IF people_ahead < staff THEN 0
        ELSE LET effective_ahead == people_ahead - staff + 1
             IN  Estimated(effective_ahead, staff, avg_service_time_min)

estimate_waiting_time_for_new_ticket ==
    LET people_ahead == people_waiting
        estimated == _estimate_waiting_from_position(people_ahead)
    IN  <<people_ahead, estimated>>

(***************************************************************************)
(* Ticket lookup.                                                          *)
(***************************************************************************)
\* the lookup without the served history
find_ticket_status_forgets_served(number) ==
    IF current_ticket # None /\ tickets[current_ticket].number = number
    THEN [status |-> "serving", info |-> NoInfo]
    ELSE IF \E idx \in 1..Len(queue) : tickets[queue[idx]].number = number
    THEN LET idx == CHOOSE i \in 1..Len(queue) :
                        /\ tickets[queue[i]].number = number
                        /\ \A j \in 1..(i - 1) : tickets[queue[j]].number # number
             people_ahead == idx - 1
             est_wait == _estimate_waiting_from_position(people_ahead)
         IN  [status |-> "waiting", info |-> <<people_ahead, est_wait>>]
    ELSE [status |-> "not_found", info |-> NoInfo]

\* the lookup counting from one (enumerate(self.queue, 1))
find_ticket_status_counts_from_one(number) ==
    IF current_ticket # None /\ tickets[current_ticket].number = number
    THEN [status |-> "serving", info |-> NoInfo]
    ELSE IF \E idx \in 1..Len(queue) : tickets[queue[idx]].number = number
    THEN LET idx == CHOOSE i \in 1..Len(queue) :
                        /\ tickets[queue[i]].number = number
                        /\ \A j \in 1..(i - 1) : tickets[queue[j]].number # number
             people_ahead == idx
             est_wait == _estimate_waiting_from_position(people_ahead)
         IN  [status |-> "waiting", info |-> <<people_ahead, est_wait>>]
    ELSE IF \E i \in 1..Len(served_tickets) :
                tickets[served_tickets[i]].number = number
    THEN [status |-> "done", info |-> NoInfo]
    ELSE [status |-> "not_found", info |-> NoInfo]

find_ticket_status(number) ==
    IF current_ticket # None /\ tickets[current_ticket].number = number
    THEN [status |-> "serving", info |-> NoInfo]
    ELSE IF \E idx \in 1..Len(queue) : tickets[queue[idx]].number = number
    THEN LET idx == CHOOSE i \in 1..Len(queue) :
                        /\ tickets[queue[i]].number = number
                        /\ \A j \in 1..(i - 1) : tickets[queue[j]].number # number
             people_ahead == idx - 1
             est_wait == _estimate_waiting_from_position(people_ahead)
         IN  [status |-> "waiting", info |-> <<people_ahead, est_wait>>]
    ELSE IF \E i \in 1..Len(served_tickets) :
                tickets[served_tickets[i]].number = number
    THEN [status |-> "done", info |-> NoInfo]
    ELSE [status |-> "not_found", info |-> NoInfo]

(***************************************************************************)
(* Queue operations.                                                       *)
(***************************************************************************)
\* Ticket.__init__
Ticket(service_code, number, time_taken_minutes) ==
    [service_code |-> service_code, number |-> number,
     time_taken_minutes |-> time_taken_minutes, status |-> "waiting"]

\* take_ticket without the increment of the counter
take_ticket_no_increment(current_time_min) ==
    LET ticket == Len(tickets) + 1
    IN  /\ tickets' = Append(tickets, Ticket(code, next_ticket_number, current_time_min))
        /\ queue' = Append(queue, ticket)
        /\ ret' = Result("take_ticket", <<current_time_min>>, ticket, "", NoInfo, FALSE)
        /\ UNCHANGED <<config, world, next_ticket_number, current_ticket, served_tickets, returned>>

\* take_ticket putting the new ticket at the head (queue.insert(0, ticket))
take_ticket_prepends(current_time_min) ==
    LET ticket == Len(tickets) + 1
    IN  /\ tickets' = Append(tickets, Ticket(code, next_ticket_number, current_time_min))
        /\ queue' = <<ticket>> \o queue
        /\ next_ticket_number' = next_ticket_number + 1
        /\ ret' = Result("take_ticket", <<current_time_min>>, ticket, "", NoInfo, FALSE)
        /\ UNCHANGED <<config, world, current_ticket, served_tickets, returned>>

\* take_ticket refusing to issue while the service is closed
take_ticket_checks_open(current_time_min) ==
    LET ticket == Len(tickets) + 1
    IN  /\ \E weekday \in 0..6 : is_open(current_time_min, weekday)
        /\ tickets' = Append(tickets, Ticket(code, next_ticket_number, current_time_min))
        /\ queue' = Append(queue, ticket)
        /\ next_ticket_number' = next_ticket_number + 1
        /\ ret' = Result("take_ticket", <<current_time_min>>, ticket, "", NoInfo, FALSE)
        /\ UNCHANGED <<config, world, current_ticket, served_tickets, returned>>

take_ticket(current_time_min) ==
    LET ticket == Len(tickets) + 1
    IN  /\ tickets' = Append(tickets, Ticket(code, next_ticket_number, current_time_min))
        /\ queue' = Append(queue, ticket)
        /\ next_ticket_number' = next_ticket_number + 1
        /\ ret' = Result("take_ticket", <<current_time_min>>, ticket, "", NoInfo, FALSE)
        /\ UNCHANGED <<config, world, current_ticket, served_tickets, returned>>

\* call_next reading the head of the queue without removing it
call_next_no_pop ==
    LET finished == IF current_ticket # None
                    THEN [tickets EXCEPT ![current_ticket].status = "done"]
                    ELSE tickets
        served   == IF current_ticket # None
                    THEN Append(served_tickets, current_ticket)
                    ELSE served_tickets
    IN  /\ served_tickets' = served
        /\ IF queue = <<>>
           THEN /\ current_ticket' = None
                /\ tickets' = finished
                /\ ret' = Result("call_next", <<>>, None, "", NoInfo, FALSE)
                /\ UNCHANGED <<queue, returned>>
           ELSE LET next_ticket == Head(queue)
                IN  /\ queue' = queue
                    /\ tickets' = [finished EXCEPT ![next_ticket].status = "serving"]
                    /\ current_ticket' = next_ticket
                    /\ returned' = Append(returned, next_ticket)
                    /\ ret' = Result("call_next", <<>>, next_ticket, "", NoInfo, FALSE)
        /\ UNCHANGED <<config, world, next_ticket_number>>

\* call_next popping the tail of the queue (queue.pop())
call_next_lifo ==
    LET finished == IF current_ticket # None
                    THEN [tickets EXCEPT ![current_ticket].status = "done"]
                    ELSE tickets
        served   == IF current_ticket # None
                    THEN Append(served_tickets, current_ticket)
                    ELSE served_tickets
    IN  /\ served_tickets' = served
        /\ IF queue = <<>>
           THEN /\ current_ticket' = None
                /\ tickets' = finished
                /\ ret' = Result("call_next", <<>>, None, "", NoInfo, FALSE)
                /\ UNCHANGED <<queue, returned>>
           ELSE LET next_ticket == queue[Len(queue)]
                IN  /\ queue' = SubSeq(queue, 1, Len(queue) - 1)
                    /\ tickets' = [finished EXCEPT ![next_ticket].status = "serving"]
                    /\ current_ticket' = next_ticket
                    /\ returned' = Append(returned, next_ticket)
                    /\ ret' = Result("call_next", <<>>, next_ticket, "", NoInfo, FALSE)
        /\ UNCHANGED <<config, world, next_ticket_number>>

\* call_next without marking the finished ticket done
call_next_keeps_status ==
    LET finished == IF current_ticket # None
                    THEN tickets
                    ELSE tickets
        served   == IF current_ticket # None
                    THEN Append(served_tickets, current_ticket)
                    ELSE served_tickets
    IN  /\ served_tickets' = served
        /\ IF queue = <<>>
           THEN /\ current_ticket' = None
                /\ tickets' = finished
                /\ ret' = Result("call_next", <<>>, None, "", NoInfo, FALSE)
                /\ UNCHANGED <<queue, returned>>
           ELSE LET next_ticket == Head(queue)
                IN  /\ queue' = Tail(queue)
                    /\ tickets' = [finished EXCEPT ![next_ticket].status = "serving"]
                    /\ current_ticket' = next_ticket
                    /\ returned' = Append(returned, next_ticket)
                    /\ ret' = Result("call_next", <<>>, next_ticket, "", NoInfo, FALSE)
        /\ UNCHANGED <<config, world, next_ticket_number>>

\* call_next without clearing the current slot on an empty queue
call_next_keeps_current ==
    LET finished == IF current_ticket # None
                    THEN [tickets EXCEPT ![current_ticket].status = "done"]
                    ELSE tickets
        served   == IF current_ticket # None
                    THEN Append(served_tickets, current_ticket)
                    ELSE served_tickets
    IN  /\ served_tickets' = served
        /\ IF queue = <<>>
           THEN /\ UNCHANGED current_ticket
                /\ tickets' = finished
                /\ ret' = Result("call_next", <<>>, None, "", NoInfo, FALSE)
                /\ UNCHANGED <<queue, returned>>
           ELSE LET next_ticket == Head(queue)
                IN  /\ queue' = Tail(queue)
                    /\ tickets' = [finished EXCEPT ![next_ticket].status = "serving"]
                    /\ current_ticket' = next_ticket
                    /\ returned' = Append(returned, next_ticket)
                    /\ ret' = Result("call_next", <<>>, next_ticket, "", NoInfo, FALSE)
        /\ UNCHANGED <<config, world, next_ticket_number>>

\* call_next dropping the finished ticket instead of keeping it
call_next_forgets_finished ==
    LET finished == IF current_ticket # None
                    THEN [tickets EXCEPT ![current_ticket].status = "done"]
                    ELSE tickets
    IN  /\ served_tickets' = served_tickets
        /\ IF queue = <<>>
           THEN /\ current_ticket' = None
                /\ tickets' = finished
                /\ ret' = Result("call_next", <<>>, None, "", NoInfo, FALSE)
                /\ UNCHANGED <<queue, returned>>
           ELSE LET next_ticket == Head(queue)
                IN  /\ queue' = Tail(queue)
                    /\ tickets' = [finished EXCEPT ![next_ticket].status = "serving"]
                    /\ current_ticket' = next_ticket
                    /\ returned' = Append(returned, next_ticket)
                    /\ ret' = Result("call_next", <<>>, next_ticket, "", NoInfo, FALSE)
        /\ UNCHANGED <<config, world, next_ticket_number>>

call_next ==
    LET finished == IF current_ticket # None
                    THEN [tickets EXCEPT ![current_ticket].status = "done"]
                    ELSE tickets
        served   == IF current_ticket # None
                    THEN Append(served_tickets, current_ticket)
                    ELSE served_tickets
    IN  /\ served_tickets' = served
        /\ IF queue = <<>>
           THEN /\ current_ticket' = None
                /\ tickets' = finished
                /\ ret' = Result("call_next", <<>>, None, "", NoInfo, FALSE)
                /\ UNCHANGED <<queue, returned>>
           ELSE LET next_ticket == Head(queue)
                IN  /\ queue' = Tail(queue)
                    /\ tickets' = [finished EXCEPT ![next_ticket].status = "serving"]
                    /\ current_ticket' = next_ticket
                    /\ returned' = Append(returned, next_ticket)
                    /\ ret' = Result("call_next", <<>>, next_ticket, "", NoInfo, FALSE)
        /\ UNCHANGED <<config, world, next_ticket_number>>

(***************************************************************************)
(* The read-only calls, as steps that record what they return.             *)
(***************************************************************************)
CallIsOpen(current_time_min, weekday) ==
    /\ ret' = Result("is_open", <<current_time_min, weekday>>, None, "", NoInfo,
                     is_open(current_time_min, weekday))
    /\ UNCHANGED <<config, world, service, returned>>

\* the status page asks for the open state (ret: ok the flag, status the
\* reason, info the time text)
CallOpenStateMessage(current_time_min, weekday) ==
    LET m == open_state_message(current_time_min, weekday)
    IN  /\ ret' = Result("open_state_message", <<current_time_min, weekday>>, None,
                         m.reason, m.time_text, m.open)
        /\ UNCHANGED <<config, world, service, returned>>

CallEstimateFromPosition(people_ahead) ==
    /\ ret' = Result("_estimate_waiting_from_position", <<people_ahead>>, None, "",
                     <<_estimate_waiting_from_position(people_ahead)>>, FALSE)
    /\ UNCHANGED <<config, world, service, returned>>

CallEstimateForNewTicket ==
    /\ ret' = Result("estimate_waiting_time_for_new_ticket", <<>>, None, "",
                     estimate_waiting_time_for_new_ticket, FALSE)
    /\ UNCHANGED <<config, world, service, returned>>

CallFindTicketStatus(number) ==
    /\ LET found == find_ticket_status(number)
       IN  ret' = Result("find_ticket_status", <<number>>, None,
                         found.status, found.info, FALSE)
    /\ UNCHANGED <<config, world, service, returned>>

(***************************************************************************)
(* The queue runs: tickets taken at opening time, calls, lookups of every   *)
(* number around the issued ones, estimates for a new ticket.              *)
(***************************************************************************)
CallAddService(svc) ==
    /\ services' = add_service(services, svc)
    /\ added' = Append(added, svc)
    /\ ret' = Result("add_service", <<svc.code>>, None, "", NoInfo, FALSE)
    /\ UNCHANGED <<config, service, returned, pc, local, overlap>>

(***************************************************************************)
(* The operations of Service on the Services held by the QueueSystem: c    *)
(* is the code the Service was fetched by.  Changing a field of the        *)
(* Service object is replacing its value in the dictionary.                *)
(***************************************************************************)
ServiceOf(c) == CHOOSE svc \in get_service(services, c) : TRUE

Store(c, svc) ==
    <<>> \o [i \in DOMAIN services |->
                IF services[i].key = c THEN [key |-> c, value |-> svc]
                ELSE services[i]]

\* Service._estimate_waiting_from_position
service_estimate_waiting_from_position(svc, people_ahead) ==
    LET staff == IF svc.avg_staff_count > 0 THEN svc.avg_staff_count ELSE 1
    IN  IF people_ahead < staff THEN 0
        ELSE LET effective_ahead == people_ahead - staff + 1
             IN  Estimated(effective_ahead, staff, svc.avg_service_time_min)

\* Service.find_ticket_status
service_find_ticket_status(c, number) ==
    LET svc == ServiceOf(c)
    IN  IF svc.current_ticket # None /\ tickets[svc.current_ticket].number = number
        THEN [status |-> "serving", info |-> NoInfo]
        ELSE IF \E idx \in 1..Len(svc.queue) : tickets[svc.queue[idx]].number = number
        THEN LET idx == CHOOSE i \in 1..Len(svc.queue) :
                            /\ tickets[svc.queue[i]].number = number
                            /\ \A j \in 1..(i - 1) : tickets[svc.queue[j]].number # number
                 people_ahead == idx - 1
                 est_wait == service_estimate_waiting_from_position(svc, people_ahead)
             IN  [status |-> "waiting", info |-> <<people_ahead, est_wait>>]
        ELSE IF \E i \in 1..Len(svc.served_tickets) :
                    tickets[svc.served_tickets[i]].number = number
        THEN [status |-> "done", info |-> NoInfo]
        ELSE [status |-> "not_found", info |-> NoInfo]

\* take_ticket with the queue a list shared by all Services
service_take_ticket_shared_queue(c, current_time_min) ==
    LET svc == ServiceOf(c)
        ticket == Len(tickets) + 1
    IN  /\ tickets' = Append(tickets,
                             Ticket(svc.code, svc.next_ticket_number, current_time_min))
        /\ services' =
              <<>> \o [i \in DOMAIN services |->
                  [key |-> services[i].key,
                   value |-> [services[i].value EXCEPT
                                 !.queue = Append(@, ticket),
                                 !.next_ticket_number =
                                     IF services[i].key = c THEN @ + 1 ELSE @]]]
        /\ ret' = Result("take_ticket", <<c, current_time_min>>, ticket, "", NoInfo, FALSE)
        /\ UNCHANGED <<config, next_ticket_number, queue, current_ticket,
                       served_tickets, returned, added, pc, local, overlap>>

\* Service.take_ticket
service_take_ticket(c, current_time_min) ==
    LET svc == ServiceOf(c)
        ticket == Len(tickets) + 1
    IN  /\ tickets' = Append(tickets,
                             Ticket(svc.code, svc.next_ticket_number, current_time_min))
        /\ services' = Store(c, [svc EXCEPT !.queue = Append(@, ticket),
                                            !.next_ticket_number = @ + 1])
        /\ ret' = Result("take_ticket", <<c, current_time_min>>, ticket, "", NoInfo, FALSE)
        /\ UNCHANGED <<config, next_ticket_number, queue, current_ticket,
                       served_tickets, returned, added, pc, local, overlap>>

\* Service.call_next
service_call_next(c) ==
    LET svc == ServiceOf(c)
        finished == IF svc.current_ticket # None
                    THEN [tickets EXCEPT ![svc.current_ticket].status = "done"]
                    ELSE tickets
        served   == IF svc.current_ticket # None
                    THEN Append(svc.served_tickets, svc.current_ticket)
                    ELSE svc.served_tickets
    IN  /\ IF svc.queue = <<>>
           THEN /\ tickets' = finished
                /\ services' = Store(c, [svc EXCEPT !.served_tickets = served,
                                                    !.current_ticket = None])
                /\ ret' = Result("call_next", <<c>>, None, "", NoInfo, FALSE)
           ELSE LET next_ticket == Head(svc.queue)
                IN  /\ tickets' = [finished EXCEPT ![next_ticket].status = "serving"]
                    /\ services' = Store(c, [svc EXCEPT !.served_tickets = served,
                                                        !.queue = Tail(@),
                                                        !.current_ticket = next_ticket])
                    /\ ret' = Result("call_next", <<c>>, next_ticket, "", NoInfo, FALSE)
        /\ UNCHANGED <<config, next_ticket_number, queue, current_ticket,
                       served_tickets, returned, added, pc, local, overlap>>

TakeTimes == {600}

Numbers == 0..(MaxTickets + 1)

Next ==
    \/ \E t \in TakeTimes : Len(tickets) < MaxTickets /\ take_ticket(t)
    \/ call_next
    \/ \E n \in Numbers : CallFindTicketStatus(n)
    \/ CallEstimateForNewTicket

Spec == Init /\ [][Next]_vars

\* the queue runs in which the staff keep calling while work is left
SpecFair == Init /\ [][Next]_vars /\ WF_vars(call_next)

(***************************************************************************)
(* The estimator runs: a Service of any staff count (the non-positive ones *)
(* included) and any positive average time, asked for any position.        *)
(***************************************************************************)
InitEst ==
    \E avg \in 1..MaxAvg, staff \in (-1)..MaxStaff :
        /\ ServiceInit("AA", avg, staff, <<10, 0>>, <<13, 0>>, {mwf_only})
        /\ NoServices
        /\ AllIdle

NextEst == \E p \in 0..MaxPeopleAhead : CallEstimateFromPosition(p)

SpecEst == InitEst /\ [][NextEst]_vars

(***************************************************************************)
(* The schedule runs: Services of several schedules (the default catalog's *)
(* 10:00-13:00 on Monday, Wednesday, Friday; the constructor's default     *)
(* weekdays; a Sunday-only service with other hours), asked at every       *)
(* minute of every weekday while tickets are taken and called.  A check    *)
(* changes nothing it reads, so a run of consecutive checks is one check:  *)
(* the next check follows a take_ticket or a call_next.                    *)
(***************************************************************************)
Minutes == 0..1439

Weekdays == 0..6

Schedules ==
    { <<<<10, 0>>, <<13, 0>>, {mwf_only}>>,
      <<<<10, 0>>, <<13, 0>>, {}>>,
      <<<<8, 30>>, <<17, 15>>, {<<6>>}>>,
      <<<<13, 0>>, <<10, 0>>, {<<1, 3>>}>> }

OpenTakeTimes == {599, 600}

InitOpen ==
    \E sch \in Schedules :
        /\ ServiceInit("AA", 10, 3, sch[1], sch[2], sch[3])
        /\ NoServices
        /\ AllIdle

NextOpen ==
    \/ /\ ret.op \notin {"is_open", "open_state_message"}
       /\ \E t \in Minutes, wd \in Weekdays : CallIsOpen(t, wd)
    \/ /\ ret.op \notin {"is_open", "open_state_message"}
       /\ \E t \in Minutes, wd \in Weekdays : CallOpenStateMessage(t, wd)
    \/ \E t \in OpenTakeTimes : Len(tickets) < MaxOpenTickets /\ take_ticket(t)
    \/ call_next

SpecOpen == InitOpen /\ [][NextOpen]_vars

(***************************************************************************)
(* The registry runs: Services of three codes, two of each code, added in  *)
(* any order to an empty QueueSystem.                                      *)
(***************************************************************************)
RegistryCodes == {"AA", "AB", "B"}

RegistryDescriptions == {"Treasury", "Student Recruitment & Scholarships"}

RegistryServices ==
    {Service(c, d, 10, 3, <<10, 0>>, <<13, 0>>, {mwf_only}) :
        c \in RegistryCodes, d \in RegistryDescriptions}

NextRegistry ==
    \E svc \in RegistryServices : Len(added) < MaxAdds /\ CallAddService(svc)

SpecRegistry == Init /\ [][NextRegistry]_vars

(***************************************************************************)
(* The default system: the six Services of create_default_system, tickets  *)
(* taken and called on any of them.                                        *)
(***************************************************************************)
DefaultServices ==
    << Service("AA", "Academic Services Bachelor Students", 10, 3,
               <<10, 0>>, <<13, 0>>, {mwf_only}),
       Service("AB", "Academic Services Masters Students", 10, 3,
               <<10, 0>>, <<13, 0>>, {mwf_only}),
       Service("B", "Treasury", 8, 3, <<10, 0>>, <<13, 0>>, {mwf_only}),
       Service("EA", "International Mobility Incoming Students", 12, 3,
               <<10, 0>>, <<13, 0>>, {mwf_only}),
       Service("EB", "International Mobility Outgoing Students", 12, 3,
               <<10, 0>>, <<13, 0>>, {mwf_only}),
       Service("G", "Student Recruitment & Scholarships", 9, 3,
               <<10, 0>>, <<13, 0>>, {mwf_only}) >>

create_default_system ==
    LET system[i \in 0..Len(DefaultServices)] ==
            IF i = 0 THEN <<>> ELSE add_service(system[i - 1], DefaultServices[i])
    IN  system[Len(DefaultServices)]

SystemCodes == {DefaultServices[i].code : i \in DOMAIN DefaultServices}

InitSystem ==
    /\ ServiceInit("AA", 10, 3, <<10, 0>>, <<13, 0>>, {mwf_only})
    /\ services = create_default_system
    /\ added = DefaultServices
    /\ AllIdle

NextSystem ==
    \/ \E c \in SystemCodes, t \in TakeTimes :
          Len(tickets) < MaxSystemTickets /\ service_take_ticket(c, t)
    \/ \E c \in SystemCodes : service_call_next(c)

SpecSystem == InitSystem /\ [][NextSystem]_vars

(***************************************************************************)
(* The interleaved runs: the sessions run take_ticket and call_next on one *)
(* Service one statement (for +=, one load and one store) at a time, with  *)
(* no lock; the number in a name is the line of the statement.             *)
(***************************************************************************)
\* ticket = Ticket(self.code, self.next_ticket_number, current_time_min)
take_ticket_132(a, current_time_min) ==
    /\ pc[a] = "idle"
    /\ tickets' = Append(tickets, Ticket(code, next_ticket_number, current_time_min))
    /\ local' = [local EXCEPT ![a].ticket = Len(tickets) + 1]
    /\ pc' = [pc EXCEPT ![a] = "133"]
    /\ overlap' = (overlap \/ \E b \in Students \ {a} : pc[b] # "idle")
    /\ ret' = Result("take_ticket_132", <<current_time_min>>, None, "", NoInfo, FALSE)
    /\ UNCHANGED <<config, services, added, next_ticket_number, queue,
                   current_ticket, served_tickets, returned>>

\* self.queue.append(ticket)
take_ticket_133(a) ==
    /\ pc[a] = "133"
    /\ queue' = Append(queue, local[a].ticket)
    /\ pc' = [pc EXCEPT ![a] = "134"]
    /\ ret' = Result("take_ticket_133", <<>>, None, "", NoInfo, FALSE)
    /\ UNCHANGED <<config, services, added, next_ticket_number, tickets,
                   current_ticket, served_tickets, returned, local, overlap>>

\* self.next_ticket_number += 1: the load
take_ticket_134_load(a) ==
    /\ pc[a] = "134"
    /\ local' = [local EXCEPT ![a].loaded = next_ticket_number]
    /\ pc' = [pc EXCEPT ![a] = "134_store"]
    /\ ret' = Result("take_ticket_134_load", <<>>, None, "", NoInfo, FALSE)
    /\ UNCHANGED <<config, services, added, service, returned, overlap>>

\* self.next_ticket_number += 1: the store, and return ticket
take_ticket_134_store(a) ==
    /\ pc[a] = "134_store"
    /\ next_ticket_number' = local[a].loaded + 1
    /\ ret' = Result("take_ticket", <<>>, local[a].ticket, "", NoInfo, FALSE)
    /\ local' = [local EXCEPT ![a] = NoLocals]
    /\ pc' = [pc EXCEPT ![a] = "idle"]
    /\ UNCHANGED <<config, services, added, queue, tickets, current_ticket,
                   served_tickets, returned, overlap>>

\* if self.current_ticket is not None: self.current_ticket.status = "done"
call_next_141 ==
    /\ pc[Staff] = "idle"
    /\ IF current_ticket # None
       THEN /\ tickets' = [tickets EXCEPT ![current_ticket].status = "done"]
            /\ pc' = [pc EXCEPT ![Staff] = "143"]
       ELSE /\ pc' = [pc EXCEPT ![Staff] = "145"]
            /\ UNCHANGED tickets
    /\ ret' = Result("call_next_141", <<>>, None, "", NoInfo, FALSE)
    /\ UNCHANGED <<config, services, added, next_ticket_number, queue,
                   current_ticket, served_tickets, returned, local, overlap>>

\* self.served_tickets.append(self.current_ticket)
call_next_143 ==
    /\ pc[Staff] = "143"
    /\ served_tickets' = Append(served_tickets, current_ticket)
    /\ pc' = [pc EXCEPT ![Staff] = "145"]
    /\ ret' = Result("call_next_143", <<>>, None, "", NoInfo, FALSE)
    /\ UNCHANGED <<config, services, added, next_ticket_number, queue,
                   current_ticket, tickets, returned, local, overlap>>

\* if not self.queue: self.current_ticket = None; return None
call_next_145 ==
    /\ pc[Staff] = "145"
    /\ queue = <<>>
    /\ current_ticket' = None
    /\ pc' = [pc EXCEPT ![Staff] = "idle"]
    /\ ret' = Result("call_next", <<>>, None, "", NoInfo, FALSE)
    /\ UNCHANGED <<config, services, added, next_ticket_number, queue,
                   served_tickets, tickets, returned, local, overlap>>

\* next_ticket = self.queue.pop(0)
call_next_149 ==
    /\ pc[Staff] = "145"
    /\ queue # <<>>
    /\ local' = [local EXCEPT ![Staff].next_ticket = Head(queue)]
    /\ queue' = Tail(queue)
    /\ pc' = [pc EXCEPT ![Staff] = "150"]
    /\ ret' = Result("call_next_149", <<>>, None, "", NoInfo, FALSE)
    /\ UNCHANGED <<config, services, added, next_ticket_number, current_ticket,
                   served_tickets, tickets, returned, overlap>>

\* next_ticket.status = "serving"
call_next_150 ==
    /\ pc[Staff] = "150"
    /\ tickets' = [tickets EXCEPT ![local[Staff].next_ticket].status = "serving"]
    /\ pc' = [pc EXCEPT ![Staff] = "151"]
    /\ ret' = Result("call_next_150", <<>>, None, "", NoInfo, FALSE)
    /\ UNCHANGED <<config, services, added, next_ticket_number, queue,
                   current_ticket, served_tickets, returned, local, overlap>>

\* self.current_ticket = next_ticket; return next_ticket
call_next_151 ==
    /\ pc[Staff] = "151"
    /\ current_ticket' = local[Staff].next_ticket
    /\ returned' = Append(returned, local[Staff].next_ticket)
    /\ ret' = Result("call_next", <<>>, local[Staff].next_ticket, "", NoInfo, FALSE)
    /\ local' = [local EXCEPT ![Staff] = NoLocals]
    /\ pc' = [pc EXCEPT ![Staff] = "idle"]
    /\ UNCHANGED <<config, services, added, next_ticket_number, queue,
                   served_tickets, tickets, overlap>>

InitConc ==
    /\ ServiceInit("AA", 10, 3, <<10, 0>>, <<13, 0>>, {mwf_only})
    /\ NoServices
    /\ AllIdle

NextConc ==
    \/ \E a \in Students, t \in TakeTimes :
          Len(tickets) < MaxConcTickets /\ take_ticket_132(a, t)
    \/ \E a \in Students : take_ticket_133(a)
    \/ \E a \in Students : take_ticket_134_load(a)
    \/ \E a \in Students : take_ticket_134_store(a)
    \/ call_next_141
    \/ call_next_143
    \/ call_next_145
    \/ call_next_149
    \/ call_next_150
    \/ call_next_151

SpecConc == InitConc /\ [][NextConc]_vars

(***************************************************************************)
(* The ticket-taking runs: tickets taken one minute before opening and at  *)
(* opening, and called.                                                    *)
(***************************************************************************)
NextTake ==
    \/ \E t \in OpenTakeTimes : Len(tickets) < MaxTakeTickets /\ take_ticket(t)
    \/ call_next

SpecTake == Init /\ [][NextTake]_vars

(***************************************************************************)
(* Properties.                                                             *)
(***************************************************************************)
Refs == 1..Len(tickets)

QueueSet == {queue[i] : i \in 1..Len(queue)}

ServedSet == {served_tickets[i] : i \in 1..Len(served_tickets)}

\* how often the ticket r occurs in the current slot, the queue, the history
Occurrences(r) ==
    (IF current_ticket = r THEN 1 ELSE 0)
    + Cardinality({i \in 1..Len(queue) : queue[i] = r})
    + Cardinality({i \in 1..Len(served_tickets) : served_tickets[i] = r})

\* C1: the k-th take_ticket call returns a ticket numbered k (the k-th
\* ticket created carries k, the call that just returned gave the newest
\* one), the counter is one past the tickets issued, no two tickets carry
\* the same number, and next_ticket_number never decreases.
C1_SequentialNumbers ==
    /\ [](/\ \A k \in Refs : tickets[k].number = k
          /\ \A j, k \in Refs : tickets[j].number = tickets[k].number => j = k
          /\ next_ticket_number = Len(tickets) + 1
          /\ ret.op = "take_ticket" =>
                /\ ret.ticket = Len(tickets)
                /\ tickets[ret.ticket].number = Len(tickets))
    /\ [][next_ticket_number' >= next_ticket_number]_vars

\* three tickets issued, two of them called (one served), then one more taken
C1_Witness ==
    /\ ret.op = "take_ticket"
    /\ tickets[ret.ticket].number = 4
    /\ served_tickets # <<>>
    /\ current_ticket # None

\* C2: every issued ticket is in exactly one of the current slot, the
\* waiting queue and the served history, and nowhere twice; the three hold
\* issued tickets only.
C2_ExactlyOneLocation ==
    /\ \A r \in Refs : Occurrences(r) = 1
    /\ QueueSet \cup ServedSet \subseteq Refs
    /\ current_ticket \in Refs \cup {None}

\* some ticket in each of the three places
C2_Witness ==
    /\ current_ticket # None
    /\ Len(queue) >= 2
    /\ Len(served_tickets) >= 2

\* C3: each call_next on a non-empty queue returns the head of the queue,
\* which carries the least number among the waiting tickets; the n-th
\* ticket returned by call_next is ticket number n; the waiting tickets
\* stand in the order of their numbers, behind the current one.
C3_Fifo ==
    /\ [](/\ \A n \in 1..Len(returned) : tickets[returned[n]].number = n
          /\ \A i, j \in 1..Len(queue) :
                i < j => tickets[queue[i]].number < tickets[queue[j]].number
          /\ \A i \in 1..Len(queue) :
                current_ticket # None =>
                    tickets[current_ticket].number < tickets[queue[i]].number)
    /\ [][(ret'.op = "call_next" /\ queue # <<>>) =>
             /\ ret'.ticket = queue[1]
             /\ \A i \in 1..Len(queue) :
                    tickets[ret'.ticket].number <= tickets[queue[i]].number]_vars

\* the third ticket is called while later ones wait
C3_Witness ==
    /\ ret.op = "call_next"
    /\ ret.ticket # None
    /\ Len(returned) = 3
    /\ Len(queue) >= 2

Rank(status) ==
    CASE status = "not_found" -> 0
      [] status = "waiting"   -> 1
      [] status = "serving"   -> 2
      [] status = "done"      -> 3

\* C4: find_ticket_status(n) is one of serving, waiting, done, not_found,
\* and from one state to the next it only moves forward in the order
\* not_found, waiting, serving, done.
C4_StatusOnlyForward ==
    /\ [](\A n \in Numbers :
             find_ticket_status(n).status \in {"serving", "waiting", "done", "not_found"})
    /\ [][\A n \in Numbers :
             Rank(find_ticket_status(n).status) <= Rank(find_ticket_status(n).status')]_vars

\* ticket 1 is found done after ticket 2 has been found serving
C4_Witness ==
    /\ ret.op = "find_ticket_status"
    /\ ret.arg = <<1>>
    /\ ret.status = "done"
    /\ find_ticket_status(2).status = "serving"
    /\ find_ticket_status(3).status = "waiting"
    /\ find_ticket_status(4).status = "not_found"

\* C5: at most one ticket has status serving, and a ticket's status is
\* serving iff it is the current ticket, waiting iff it is in the queue,
\* done iff it is in the served history.
C5_StatusAgreesWithLocation ==
    /\ Cardinality({r \in Refs : tickets[r].status = "serving"}) <= 1
    /\ \A r \in Refs :
          /\ tickets[r].status = "serving" <=> current_ticket = r
          /\ tickets[r].status = "waiting" <=> r \in QueueSet
          /\ tickets[r].status = "done" <=> r \in ServedSet

\* tickets of all three statuses
C5_Witness ==
    /\ \E r \in Refs : tickets[r].status = "serving"
    /\ \E r \in Refs : tickets[r].status = "waiting"
    /\ \E r \in Refs : tickets[r].status = "done"
    /\ ret.op = "call_next"

\* C6: call_next on an empty queue returns none and leaves current = none;
\* a current ticket c becomes done, is the last of the served history and
\* is then found done; without a current ticket nothing changes.
C6_CallNextOnEmptyQueue ==
    [][(ret'.op = "call_next" /\ queue = <<>>) =>
          /\ ret'.ticket = None
          /\ current_ticket' = None
          /\ current_ticket # None =>
                /\ tickets'[current_ticket].status = "done"
                /\ served_tickets' = Append(served_tickets, current_ticket)
                /\ \A n \in {tickets[current_ticket].number} :
                      find_ticket_status(n)' = [status |-> "done", info |-> NoInfo]
          /\ current_ticket = None => UNCHANGED service]_vars

\* the last ticket has just been finished by a call on the empty queue
C6_Witness ==
    /\ ret.op = "call_next"
    /\ ret.ticket = None
    /\ queue = <<>>
    /\ current_ticket = None
    /\ served_tickets # <<>>
    /\ tickets[served_tickets[Len(served_tickets)]].status = "done"

\* C7: the ticket at (one-based) place i of the queue is found waiting with
\* people_ahead = i - 1, the current ticket not counted, and the minutes of
\* the estimator for i - 1; a lookup that returned waiting returned that.
C7_WaitingPosition ==
    /\ \A i \in 1..Len(queue) :
          find_ticket_status(tickets[queue[i]].number)
              = [status |-> "waiting",
                 info |-> <<i - 1, _estimate_waiting_from_position(i - 1)>>]
    /\ (ret.op = "find_ticket_status" /\ ret.status = "waiting") =>
          \E i \in 1..Len(queue) :
              /\ tickets[queue[i]].number = ret.arg[1]
              /\ ret.info = <<i - 1, _estimate_waiting_from_position(i - 1)>>

\* a waiting ticket with people ahead and a positive estimate, while
\* another ticket is being served
C7_Witness ==
    /\ ret.op = "find_ticket_status"
    /\ ret.status = "waiting"
    /\ current_ticket # None
    /\ ret.info[1] >= 3
    /\ ret.info[2] > 0

\* staff = max(1, avg_staff_count)
MaxOneStaff == IF avg_staff_count >= 1 THEN avg_staff_count ELSE 1

\* C8, as stated: with a positive average service time, the estimate for
\* people_ahead is 0 if and only if people_ahead < staff, and from staff on
\* it is non-decreasing in people_ahead.
C8_ZeroIffBelowStaff ==
    (ret.op = "_estimate_waiting_from_position" /\ avg_service_time_min > 0) =>
        /\ ret.info[1] = 0 <=> ret.arg[1] < MaxOneStaff
        /\ \A p \in MaxOneStaff..ret.arg[1] :
              _estimate_waiting_from_position(p) <= ret.info[1]

\* C8, amended: with a positive average service time, the estimate is 0 if
\* people_ahead < staff; from staff on it is 0 only if
\* (people_ahead - staff + 1) * avg_service_time <= staff, so never when the
\* average service time exceeds staff; and from staff on it is
\* non-decreasing in people_ahead.
C8_ZeroBelowStaff ==
    (ret.op = "_estimate_waiting_from_position" /\ avg_service_time_min > 0) =>
        /\ ret.arg[1] < MaxOneStaff => ret.info[1] = 0
        /\ (ret.arg[1] >= MaxOneStaff /\ ret.info[1] = 0) =>
              (ret.arg[1] - MaxOneStaff + 1) * avg_service_time_min <= MaxOneStaff
        /\ \A p \in MaxOneStaff..ret.arg[1] :
              _estimate_waiting_from_position(p) <= ret.info[1]

\* an estimate of 0 with all counters taken, and a positive one further back
C8_Witness ==
    /\ ret.op = "_estimate_waiting_from_position"
    /\ avg_service_time_min > 0
    /\ ret.arg[1] > MaxOneStaff
    /\ ret.info[1] = 0
    /\ _estimate_waiting_from_position(MaxPeopleAhead) > 0

\* C9: estimate_waiting_time_for_new_ticket returns (q, estimate_wait(q))
\* for the length q of the waiting queue, whatever the current ticket and
\* the served history; for q >= staff the minutes are
\* floor((q - staff + 1) / staff * avg_service_time); with staff 3 and
\* average time 10, five tickets taken and none called, it returns (5, 10).
C9_EstimateForNewTicket ==
    ret.op = "estimate_waiting_time_for_new_ticket" =>
        /\ ret.info[1] = Len(queue)
        /\ ret.info[2] = _estimate_waiting_from_position(Len(queue))
        /\ Len(queue) >= MaxOneStaff =>
              ret.info[2] = ((Len(queue) - MaxOneStaff + 1) * avg_service_time_min)
                                \div MaxOneStaff
        /\ (/\ avg_staff_count = 3
            /\ avg_service_time_min = 10
            /\ Len(queue) = 5
            /\ Len(tickets) = 5) => ret.info = <<5, 10>>

\* C10: is_open(t, weekday) is true iff the weekday is one of
\* allowed_weekdays and opening_time <= t < closing_time, and the call
\* leaves the Service as it was.
C10_IsOpen ==
    /\ [](ret.op = "is_open" =>
             (ret.ok <=>
                 /\ ret.arg[2] \in {allowed_weekdays[i] : i \in DOMAIN allowed_weekdays}
                 /\ opening_time_min <= ret.arg[1]
                 /\ ret.arg[1] < closing_time_min))
    /\ [][ret'.op = "is_open" => UNCHANGED <<config, world, service>>]_vars

\* closed at the closing minute of an allowed weekday, a ticket waiting
C10_Witness ==
    /\ ret.op = "is_open"
    /\ ~ret.ok
    /\ ret.arg[1] = closing_time_min
    /\ InList(ret.arg[2], allowed_weekdays)
    /\ queue # <<>>

\* C11: find_ticket_status(n) changes nothing, and it returns not_found
\* exactly for the numbers never issued (n < 1 or n >= next_ticket_number):
\* every issued number is found waiting, serving or done.
C11_NotFoundIffNeverIssued ==
    /\ [](\A n \in Numbers :
             find_ticket_status(n).status = "not_found"
                 <=> (n < 1 \/ n >= next_ticket_number))
    /\ [](ret.op = "find_ticket_status" =>
             (ret.status = "not_found"
                 <=> (ret.arg[1] < 1 \/ ret.arg[1] >= next_ticket_number)))
    /\ [][ret'.op = "find_ticket_status" => UNCHANGED <<config, service, returned>>]_vars

\* a served ticket looked up after later ones were taken and called
C11_Witness ==
    /\ ret.op = "find_ticket_status"
    /\ ret.arg = <<1>>
    /\ ret.status = "done"
    /\ Len(served_tickets) >= 3
    /\ find_ticket_status(next_ticket_number).status = "not_found"

\* the tickets whose status a step changes, makes done, makes serving
Changed == {r \in Refs : tickets'[r].status # tickets[r].status}

MadeDone ==
    {r \in Refs : tickets'[r].status = "done" /\ tickets[r].status # "done"}

Promoted ==
    {r \in Refs : tickets'[r].status = "serving" /\ tickets[r].status # "serving"}

\* C13, as stated: a call_next changes the status of exactly one ticket
\* when a current ticket exists (that ticket, to done) and of no ticket when
\* there is none, and promotes at most one ticket to serving.
C13_OneStatusChange ==
    [][ret'.op = "call_next" =>
          /\ current_ticket # None =>
                Changed = {current_ticket} /\ tickets'[current_ticket].status = "done"
          /\ current_ticket = None => Changed = {}
          /\ Cardinality(Promoted) <= 1]_vars

\* C13, amended: a call_next makes done exactly the outgoing current ticket
\* (no ticket when there is none), promotes to serving exactly the head of
\* the queue (no ticket when the queue is empty), and changes the status of
\* no other ticket: two tickets change status when there is a current
\* ticket and the queue is not empty.
C13_DoneAndPromoted ==
    [][ret'.op = "call_next" =>
          /\ MadeDone = IF current_ticket # None THEN {current_ticket} ELSE {}
          /\ Promoted = IF queue # <<>> THEN {Head(queue)} ELSE {}
          /\ Cardinality(Promoted) <= 1
          /\ Changed = MadeDone \cup Promoted]_vars

\* a call that finished one ticket and promoted another
C13_Witness ==
    /\ ret.op = "call_next"
    /\ ret.ticket # None
    /\ tickets[ret.ticket].status = "serving"
    /\ served_tickets # <<>>
    /\ tickets[served_tickets[Len(served_tickets)]].status = "done"

\* the numbers of a sequence of tickets
NumbersOf(refs) == <<>> \o [i \in 1..Len(refs) |-> tickets[refs[i]].number]

\* C18: the numbers of the served history, then of the current ticket if
\* any, then of the waiting queue, are 1, 2, ..., next_ticket_number - 1.
C18_OneToCounter ==
    NumbersOf(served_tickets)
        \o (IF current_ticket # None THEN <<tickets[current_ticket].number>> ELSE <<>>)
        \o NumbersOf(queue)
    = <<>> \o [i \in 1..(next_ticket_number - 1) |-> i]

\* served, current and waiting tickets together
C18_Witness ==
    /\ Len(served_tickets) >= 3
    /\ current_ticket # None
    /\ Len(queue) >= 3
    /\ next_ticket_number = MaxTickets + 1

\* C19: the people_ahead of a waiting ticket is left alone by take_ticket
\* and goes down by one with each call_next; a ticket with nobody ahead is
\* serving after the next call_next and done after the one after it, so the
\* ticket at place i of the queue is the i-th to be called from now; and if
\* the staff keep calling, every issued ticket is eventually done.
C19_Progress ==
    /\ [](\A i \in 1..Len(queue) :
             tickets[queue[i]].number = Len(returned) + i)
    /\ [][\A n \in Numbers :
             /\ (find_ticket_status(n).status = "waiting" /\ ret'.op = "take_ticket") =>
                   find_ticket_status(n)' = find_ticket_status(n)
             /\ (find_ticket_status(n).status = "waiting" /\ ret'.op = "call_next") =>
                   IF find_ticket_status(n).info[1] = 0
                   THEN find_ticket_status(n)'.status = "serving"
                   ELSE /\ find_ticket_status(n)'.status = "waiting"
                        /\ find_ticket_status(n)'.info[1]
                              = find_ticket_status(n).info[1] - 1
             /\ (find_ticket_status(n).status = "serving" /\ ret'.op = "call_next") =>
                   find_ticket_status(n)'.status = "done"]_vars
    /\ \A r \in 1..MaxTickets :
          (Len(tickets) >= r) ~> (Len(tickets) >= r /\ tickets[r].status = "done")

\* the ticket that was third in line is done while others wait
C19_Witness ==
    /\ ret.op = "call_next"
    /\ Len(returned) = 4
    /\ tickets[3].status = "done"
    /\ Len(queue) >= 2

\* C14: take_ticket(t) can be called at any time, open or closed; it makes
\* exactly one new ticket, waiting, issued at t and numbered by the counter,
\* puts it at the tail of the queue and adds one to the counter; the
\* current ticket, the served history and the tickets already there are
\* left as they were.
C14_TakeTicketFrame ==
    /\ [](\A t \in OpenTakeTimes : ENABLED take_ticket(t))
    /\ [][ret'.op = "take_ticket" =>
             /\ Len(tickets') = Len(tickets) + 1
             /\ tickets'[Len(tickets')] =
                   [service_code |-> code, number |-> next_ticket_number,
                    time_taken_minutes |-> ret'.arg[1], status |-> "waiting"]
             /\ ret'.ticket = Len(tickets')
             /\ queue' = Append(queue, ret'.ticket)
             /\ next_ticket_number' = next_ticket_number + 1
             /\ \A r \in Refs : tickets'[r] = tickets[r]
             /\ UNCHANGED <<config, current_ticket, served_tickets>>]_vars

\* a ticket taken before opening, behind a waiting one, while one is served
C14_Witness ==
    /\ ret.op = "take_ticket"
    /\ ret.arg = <<599>>
    /\ \A weekday \in Weekdays : ~is_open(599, weekday)
    /\ tickets[ret.ticket].time_taken_minutes = 599
    /\ Len(queue) >= 2
    /\ current_ticket # None
    /\ served_tickets # <<>>

\* C16: open_state_message returns true exactly when is_open is true; when
\* it returns false the reason is the first that applies of: the weekday is
\* not allowed; the time is before opening; the time is at or after
\* closing; exactly one reason is given, and it is never the fallback
\* 'temporarily unavailable'.
C16_ClosedReason ==
    ret.op = "open_state_message" =>
        LET t == ret.arg[1]
            allowed == ret.arg[2] \in {allowed_weekdays[i] : i \in DOMAIN allowed_weekdays}
        IN  /\ ret.ok <=> is_open(t, ret.arg[2])
            /\ ret.ok => ret.status = ""
            /\ ~ret.ok =>
                  /\ ret.status \in {NotScheduledDay, NotOpenedYet, AlreadyClosed}
                  /\ ret.status = NotScheduledDay <=> ~allowed
                  /\ ret.status = NotOpenedYet <=> allowed /\ t < opening_time_min
                  /\ ret.status = AlreadyClosed <=>
                        allowed /\ t >= opening_time_min /\ t >= closing_time_min
            /\ ret.status # TemporarilyUnavailable

\* asked at an early hour of a day without support: both the weekday and
\* the time reasons apply, and the weekday is the one given
C16_Witness ==
    /\ ret.op = "open_state_message"
    /\ ~ret.ok
    /\ ~InList(ret.arg[2], allowed_weekdays)
    /\ ret.arg[1] < opening_time_min
    /\ ret.status = NotScheduledDay
    /\ ret.info = <<9, 59>>

\* the places in `added` of the last and of the first Service of code c
LastAdded(c) ==
    CHOOSE i \in DOMAIN added :
        added[i].code = c /\ \A j \in DOMAIN added : j > i => added[j].code # c

FirstAdded(c) ==
    CHOOSE i \in DOMAIN added :
        added[i].code = c /\ \A j \in DOMAIN added : j < i => added[j].code # c

\* C12: after any sequence of add_service calls, get_service(k) is the
\* Service of code k added last, and None for a code never added;
\* get_service_codes lists every added code once, in the order of first
\* insertion; a call removes no code.
C12_LastWriteWins ==
    /\ [](LET codes == get_service_codes(services)
          IN  /\ \A c \in RegistryCodes :
                    get_service(services, c) =
                        IF \E i \in DOMAIN added : added[i].code = c
                        THEN {added[LastAdded(c)]} ELSE {}
              /\ {codes[i] : i \in DOMAIN codes} = {added[i].code : i \in DOMAIN added}
              /\ \A i, j \in DOMAIN codes :
                    i < j => /\ codes[i] # codes[j]
                             /\ FirstAdded(codes[i]) < FirstAdded(codes[j]))
    /\ [][/\ Len(get_service_codes(services')) >= Len(get_service_codes(services))
          /\ \A i \in DOMAIN services :
                get_service_codes(services')[i] = get_service_codes(services)[i]]_vars

\* a code added twice with different Services, after another code, and a
\* code never added
C12_Witness ==
    /\ Len(added) = 4
    /\ added[1].code = "AB" /\ added[3].code = "AB" /\ added[1] # added[3]
    /\ added[2].code = "AA" /\ added[4].code = "AA" /\ added[2] # added[4]
    /\ get_service_codes(services) = <<"AB", "AA">>
    /\ get_service(services, "AB") = {added[3]}
    /\ get_service(services, "B") = {}

\* the tickets a Service refers to
ServiceRefs(svc) ==
    {svc.queue[i] : i \in DOMAIN svc.queue}
        \cup {svc.served_tickets[i] : i \in DOMAIN svc.served_tickets}
        \cup (IF svc.current_ticket # None THEN {svc.current_ticket} ELSE {})

\* C15: take_ticket or call_next on one Service of the QueueSystem leaves
\* every other Service (queue, current ticket, served history, counter) and
\* its tickets unchanged, and find_ticket_status(n) on the other Service
\* answers after the operation as before, for every n.
C15_Isolated ==
    [][\A c \in SystemCodes :
          (ret'.op \in {"take_ticket", "call_next"} /\ ret'.arg[1] # c) =>
              /\ get_service(services', c) = get_service(services, c)
              /\ \A r \in ServiceRefs(ServiceOf(c)) : tickets'[r] = tickets[r]
              /\ \A n \in 0..(MaxSystemTickets + 1) :
                    service_find_ticket_status(c, n)' = service_find_ticket_status(c, n)]_vars

\* AA has just called its ticket 1 while AB holds a waiting ticket 1 of
\* its own and B has none
C15_Witness ==
    /\ services # <<>>
    /\ ret.op = "call_next"
    /\ ret.arg = <<"AA">>
    /\ ret.ticket # None
    /\ tickets[ret.ticket].number = 1
    /\ service_find_ticket_status("AA", 1).status = "serving"
    /\ service_find_ticket_status("AB", 1).status = "waiting"
    /\ service_find_ticket_status("B", 1).status = "not_found"

\* C17: a find_ticket_status lookup that runs between two statements of a
\* call_next in progress (the tickets having been taken one call after the
\* other, none being taken now) sees no ticket that is both the current
\* ticket and in the served history, reports 'serving' for no ticket whose
\* status is 'done', and reports not_found for no ticket issued.
C17_NoTornLookup ==
    (~overlap /\ \A a \in Students : pc[a] = "idle") =>
        \A r \in Refs :
            LET found == find_ticket_status(tickets[r].number)
            IN  /\ ~(current_ticket = r /\ r \in ServedSet)
                /\ ~(found.status = "serving" /\ tickets[r].status = "done")
                /\ found.status # "not_found"

\* C20: once the take_ticket calls of the two students, interleaved in any
\* way, have returned, no two tickets carry the same number and the counter
\* is the number of tickets issued plus 1.
C20_UniqueNumbers ==
    (\A a \in Students : pc[a] = "idle") =>
        /\ \A r1, r2 \in Refs : r1 # r2 => tickets[r1].number # tickets[r2].number
        /\ next_ticket_number = Len(tickets) + 1

====
